---- MODULE Spec2Model ----
(***************************************************************************)
(* Unity bridge tools (advanced-mcp/tools/unity.js): the response          *)
(* normalizer convertToMCPResponse / convertLegacyResponse and the request *)
(* gateway handleUnityRequest behind the four bridge-backed tool handlers. *)
(*                                                                         *)
(* JavaScript values are records [k, s]: k is the kind ("undef" for a      *)
(* missing property, "null", "str", "arr"), s the text of a string and a   *)
(* the entries of an array.  A payload object is its keys in insertion     *)
(* order plus the value of each key.                                       *)
(*                                                                         *)
(* The interactive tool wait_for_user of the terminal module (part_000) is *)
(* modelled next to it, under the specification SpecWait.                  *)
(***************************************************************************)
EXTENDS Integers, Sequences, FiniteSets, TLC

\* ------------------------------------------------------------- bounds ----
MaxMessages == 2      \* longest `messages` array drawn
MaxErrors   == 2      \* longest `errors` array drawn

\* ---------------------------------------------------------- JS values ----
Undef  == [k |-> "undef", s |-> "", a |-> << >>]
Null   == [k |-> "null",  s |-> "", a |-> << >>]
Str(t) == [k |-> "str",   s |-> t,  a |-> << >>]
Arr(q) == [k |-> "arr",   s |-> "", a |-> q]

\* JavaScript truthiness: undefined, null and "" are falsy; an array is
\* truthy even when empty.
Truthy(v) == v.k = "arr" \/ (v.k = "str" /\ v.s # "")

\* a || b
Or(a, b) == IF Truthy(a) THEN a ELSE b

\* Array.isArray
IsArray(v) == v.k = "arr"

\* .length of a string or an array
Length(v) == IF v.k = "arr" THEN Len(v.a) ELSE Len(v.s)

\* ------------------------------------------------------ content blocks ----
TextBlock(v)  == [type |-> "text", text |-> v]
ImageBlock(v) == [type |-> "image", data |-> v, mimeType |-> "image/png"]

\* Outcome of a call: a returned { content } or a thrown TypeError.
Return(c)  == [raised |-> FALSE, content |-> c, message |-> ""]
Raise(msg) == [raised |-> TRUE, content |-> << >>, message |-> msg]

\* ------------------------------------------------------------ payloads ----
PayloadKeys == <<"messages", "message", "data", "image", "errors", "status">>

\* p.messages, p.message, ... : a key that is not an own property reads as
\* undefined; a string payload has none of these properties.
Get(p, key) == IF p.k = "obj" /\ \E i \in 1..Len(p.keys) : p.keys[i] = key
               THEN p.f[key] ELSE Undef

\* A message entry: null, a string, or an object {type, content, text}.
MsgNull == [k |-> "null", s |-> "", type |-> Undef, content |-> Undef, text |-> Undef]
MsgStr(t) == [k |-> "str", s |-> t, type |-> Undef, content |-> Undef, text |-> Undef]
MsgObj(t, c, x) == [k |-> "obj", s |-> "", type |-> t, content |-> c, text |-> x]

\* An errors entry: null, a string, or an object with Level/level/Message/message.
ErrNull   == [k |-> "null", s |-> "", Level |-> Undef, level |-> Undef,
              Message |-> Undef, message |-> Undef]
ErrStr(t) == [k |-> "str", s |-> t, Level |-> Undef, level |-> Undef,
              Message |-> Undef, message |-> Undef]
ErrObj(L, l, M, m) == [k |-> "obj", s |-> "", Level |-> L, level |-> l,
                       Message |-> M, message |-> m]

\* ---------------------------------------------------------- normalizer ----
\* for (const msg of unityResponse.messages) { ... } from entry i on, with
\* the content built so far; reading msg.type of a null entry throws.
RECURSIVE MessagesLoop(_, _, _)
MessagesLoop(msgs, i, content) ==
  IF i > Len(msgs) THEN Return(content)
  ELSE LET msg == msgs[i] IN
    IF msg.k = "null"
    THEN Raise("Cannot read properties of null (reading 'type')")
    ELSE IF msg.type = Str("text")
    THEN MessagesLoop(msgs, i + 1, Append(content, TextBlock(msg.content)))
    ELSE IF msg.type = Str("image")
    THEN MessagesLoop(msgs, i + 1,
           (IF Truthy(msg.text) THEN Append(content, TextBlock(msg.text))
                                ELSE content)
           \o <<ImageBlock(msg.content)>>)
    ELSE MessagesLoop(msgs, i + 1, content)

\* The callback of unityData.errors.map: one entry rendered as text.
\* typeof null is 'object', so a null entry reaches err.Level and throws.
ErrorLine(err) ==
  IF err.k = "str" THEN err.s
  ELSE Or(Or(err.Level, err.level), Str("Info")).s \o ": "
       \o Or(Or(err.Message, err.message), Str("Unknown error")).s

\* .map(...).join('\n')
RECURSIVE JoinLines(_, _)
JoinLines(errs, i) ==
  IF i > Len(errs) THEN ""
  ELSE IF i = Len(errs) THEN ErrorLine(errs[i])
  ELSE ErrorLine(errs[i]) \o "\n" \o JoinLines(errs, i + 1)

\* The errors step of convertLegacyResponse, given the content so far.
ErrorsStep(errors, content) ==
  IF Truthy(errors) /\ Length(errors) > 0
  THEN IF ~IsArray(errors)
       THEN Raise("unityData.errors.map is not a function")
       ELSE IF \E i \in 1..Len(errors.a) : errors.a[i].k = "null"
       THEN Raise("Cannot read properties of null (reading 'Level')")
       ELSE Return(Append(content,
                     TextBlock(Str("Unity Logs:\n" \o JoinLines(errors.a, 1)))))
  ELSE Return(content)

convertLegacyResponse(unityData) ==
  LET message == Get(unityData, "message")
      data    == Get(unityData, "data")
      image   == Get(unityData, "image")
      c1 == IF Truthy(message) THEN <<TextBlock(message)>> ELSE << >>
      c2 == IF Truthy(data) /\ data # message
            THEN Append(c1, TextBlock(data)) ELSE c1
      c3 == IF Truthy(image)
            THEN c2 \o <<TextBlock(Str("Unity Screenshot")), ImageBlock(image)>>
            ELSE c2
      r4 == ErrorsStep(Get(unityData, "errors"), c3)
  IN IF r4.raised THEN r4
     ELSE IF Len(r4.content) = 0
     THEN Return(<<TextBlock(Str("Unity Status: "
                   \o Or(Get(unityData, "status"), Str("Unknown")).s))>>)
     ELSE r4

\* convertToMCPResponse without the early `return { content }`: the legacy
\* conversion runs after the messages loop and its blocks follow.
convertToMCPResponse_FallThrough(unityResponse) ==
  IF unityResponse.k = "null"
  THEN Raise("Cannot read properties of null (reading 'messages')")
  ELSE LET messages == Get(unityResponse, "messages")
           legacy   == convertLegacyResponse(unityResponse) IN
    IF Truthy(messages) /\ IsArray(messages)
    THEN LET r == MessagesLoop(messages.a, 1, << >>) IN
      IF r.raised THEN r
      ELSE IF legacy.raised THEN legacy
      ELSE Return(r.content \o legacy.content)
    ELSE legacy

convertToMCPResponse(unityResponse) ==
  IF unityResponse.k = "null"
  THEN Raise("Cannot read properties of null (reading 'messages')")
  ELSE LET messages == Get(unityResponse, "messages") IN
    IF Truthy(messages) /\ IsArray(messages)
    THEN MessagesLoop(messages.a, 1, << >>)
    ELSE convertLegacyResponse(unityResponse)

\* ------------------------------------------------------------ gateway ----
UNITY_BASE_URL == "http://localhost:7777"

\* unityTools: the names of the bridge-backed tools.
unityTools == {"screenshot", "camera_screenshot", "scene_hierarchy", "execute"}

\* An optional numeric or boolean argument of a handler, and `v || d`.
NoArg    == [k |-> "undef", n |-> 0, b |-> FALSE]
Num(n)   == [k |-> "num", n |-> n, b |-> FALSE]
Bool(b)  == [k |-> "bool", n |-> 0, b |-> b]
NumOr(v, d)  == IF v.k = "num" /\ v.n # 0 THEN v.n ELSE d
BoolOr(v, d) == IF v.k = "bool" /\ v.b THEN v.b ELSE d

NoBody == [k |-> "undef", s |-> "", keys |-> << >>, f |-> [x \in {} |-> Undef]]

\* Truthiness of error.response?.data: undefined, null and "" are falsy.
TruthyBody(d) == d.k = "obj" \/ (d.k = "str" /\ d.s # "")

\* JSON.stringify of a scalar, of an entry and of a body.
JsonScalar(v) == IF v.k = "str" THEN "\"" \o v.s \o "\"" ELSE "null"

RECURSIVE JsonProps(_, _, _)
JsonProps(names, rec, first) ==
  IF names = << >> THEN ""
  ELSE IF rec[Head(names)].k = "undef" THEN JsonProps(Tail(names), rec, first)
  ELSE (IF first THEN "" ELSE ",")
       \o "\"" \o Head(names) \o "\":" \o JsonScalar(rec[Head(names)])
       \o JsonProps(Tail(names), rec, FALSE)

JsonEntry(e) ==
  IF e.k = "null" THEN "null"
  ELSE IF e.k = "str" THEN "\"" \o e.s \o "\""
  ELSE IF "type" \in DOMAIN e
  THEN "{" \o JsonProps(<<"type", "content", "text">>, e, TRUE) \o "}"
  ELSE "{" \o JsonProps(<<"Level", "level", "Message", "message">>, e, TRUE) \o "}"

RECURSIVE JsonEntries(_, _)
JsonEntries(q, i) ==
  IF i > Len(q) THEN ""
  ELSE JsonEntry(q[i]) \o (IF i < Len(q) THEN "," ELSE "") \o JsonEntries(q, i + 1)

JsonValue(v) ==
  IF v.k = "arr" THEN "[" \o JsonEntries(v.a, 1) \o "]" ELSE JsonScalar(v)

RECURSIVE JsonMembers(_, _, _)
JsonMembers(d, i, first) ==
  IF i > Len(d.keys) THEN ""
  ELSE (IF first THEN "" ELSE ",")
       \o "\"" \o d.keys[i] \o "\":" \o JsonValue(d.f[d.keys[i]])
       \o JsonMembers(d, i + 1, FALSE)

JSONstringify(d) ==
  IF d.k = "obj" THEN "{" \o JsonMembers(d, 1, TRUE) \o "}"
  ELSE IF d.k = "str" THEN "\"" \o d.s \o "\""
  ELSE "null"

ConnectionErrorBlock(message) ==
  TextBlock(Str("Unity Connection Error: " \o message
      \o "\nCheck: Unity running, Bridge Window open, Port 7777 active."))

\* The catch block reading error.data instead of error.response?.data: the
\* body is never seen.
handleUnityRequestCatch_NoBody(message, data) ==
  Return(<<ConnectionErrorBlock(message)>>)

\* The catch block without its inner try/catch: a throw of the normalizer
\* escapes to the caller.
handleUnityRequestCatch_NoInnerTry(message, data) ==
  LET errorContent == <<ConnectionErrorBlock(message)>> IN
    IF TruthyBody(data)
    THEN LET unityError == convertToMCPResponse(data) IN
      IF ~unityError.raised
      THEN Return(errorContent \o unityError.content)
      ELSE unityError
    ELSE Return(errorContent)

\* The catch block of handleUnityRequest for a caught error with the given
\* message and error.response?.data: it returns { content: errorContent }.
handleUnityRequestCatch(message, data) ==
  LET errorContent == <<ConnectionErrorBlock(message)>> IN
    IF TruthyBody(data)
    THEN LET unityError == convertToMCPResponse(data) IN
      IF ~unityError.raised
      THEN Return(errorContent \o unityError.content)
      ELSE Return(Append(errorContent,
             TextBlock(Str("Unity Error Details: " \o JSONstringify(data)))))
    ELSE Return(errorContent)

\* The continuation of handleUnityRequest once axios.post has resolved with
\* response.data: a throw of the normalizer lands in the same catch block,
\* with an error that carries no response.
handleUnityRequestResolved(data) ==
  LET r == convertToMCPResponse(data) IN
    IF ~r.raised THEN r
    ELSE handleUnityRequestCatch(r.message, NoBody)

\* -------------------------------------------------------------- inputs ----
SeqUpTo(S, n) == UNION { [1..m -> S] : m \in 0..n }

RECURSIVE PresentKeys(_, _)
PresentKeys(f, names) ==
  IF names = << >> THEN << >>
  ELSE IF f[Head(names)].k = "undef" THEN PresentKeys(f, Tail(names))
  ELSE <<Head(names)>> \o PresentKeys(f, Tail(names))

Reverse(q) == [i \in 1..Len(q) |-> q[Len(q) + 1 - i]]

\* The object with the given properties, its keys in the order of
\* PayloadKeys or in the opposite order.
Obj(f, reversed) ==
  [k |-> "obj", s |-> "",
   keys |-> IF reversed THEN Reverse(PresentKeys(f, PayloadKeys))
                        ELSE PresentKeys(f, PayloadKeys),
   f |-> f]
NullBody   == [k |-> "null", s |-> "", keys |-> << >>, f |-> [x \in {} |-> Undef]]
StrBody(t) == [k |-> "str", s |-> t, keys |-> << >>, f |-> [x \in {} |-> Undef]]

MsgEntries ==
  { MsgNull, MsgStr("junk"),
    MsgObj(Str("text"), Str("hello"), Undef),
    MsgObj(Str("image"), Str("AAAA"), Undef),
    MsgObj(Str("image"), Str("AAAA"), Str("")),
    MsgObj(Str("image"), Str("AAAA"), Str("caption")),
    MsgObj(Str("audio"), Str("zz"), Str("caption")),
    MsgObj(Undef, Str("hello"), Undef) }

ErrEntries ==
  { ErrNull, ErrStr("plain string"),
    ErrObj(Str("Warning"), Undef, Str("oops"), Undef),
    ErrObj(Undef, Str("error"), Undef, Str("bad")),
    ErrObj(Str(""), Str("warn"), Null, Undef),
    ErrObj(Undef, Undef, Undef, Undef) }

\* Legacy-shape objects: every combination of the legacy fields.
LegacyFields ==
  [ messages : {Undef},
    message  : {Undef, Str(""), Str("X")},
    data     : {Undef, Str(""), Str("X"), Str("Y")},
    image    : {Undef, Str(""), Str("AAAA")},
    errors   : {Undef, Null, Str("boom")}
               \cup { Arr(q) : q \in SeqUpTo(ErrEntries, MaxErrors) },
    status   : {Undef, Null, Str(""), Str("idle")} ]

\* Objects with a `messages` property (an array, null or a string) next to
\* a choice of legacy fields, and the same legacy fields on their own.
MixedFields ==
  [ messages : {Undef, Null, Str("none")}
               \cup { Arr(q) : q \in SeqUpTo(MsgEntries, MaxMessages) },
    message  : {Undef, Str("X")},
    data     : {Undef, Str("Y")},
    image    : {Undef, Str("AAAA")},
    errors   : {Undef, Arr(<<ErrStr("plain string")>>)},
    status   : {Undef, Str("idle")} ]

Bodies ==
  {NullBody, StrBody(""), StrBody("<html>")}
  \cup { Obj(f, FALSE) : f \in LegacyFields }
  \cup { Obj(f, r) : f \in MixedFields, r \in BOOLEAN }

\* What axios.post rejects with: no response at all (timeout, refused
\* connection) or a response whose data is any body.
Failures(timeout) ==
  { [message |-> m, data |-> NoBody] :
      m \in { "timeout of " \o ToString(timeout) \o "ms exceeded",
              "connect ECONNREFUSED 127.0.0.1:7777" } }
  \cup { [message |-> "Request failed with status code 500", data |-> d] :
           d \in Bodies }

\* ------------------------------------------------------- wait_for_user ----
\* The interactive tool of the terminal module.  The Russian labels of the
\* source are written in Latin letters here ("Otpravit" for the submit
\* button, "Vypolneno" for the done button, "Otmena" for cancel).
\*
\* A text is a sequence of pieces.  The characters ' " and \ are always
\* pieces of their own, so that quoting can be followed through a command
\* line; any other piece is a run of ordinary characters.

RECURSIVE TrimLeft(_)
TrimLeft(q) == IF q # << >> /\ Head(q) = " " THEN TrimLeft(Tail(q)) ELSE q

RECURSIVE TrimRight(_)
TrimRight(q) ==
  IF q # << >> /\ q[Len(q)] = " " THEN TrimRight(SubSeq(q, 1, Len(q) - 1)) ELSE q

\* String.prototype.trim
Trim(q) == TrimRight(TrimLeft(q))

\* The string a text spells.
RECURSIVE Text(_)
Text(q) == IF q = << >> THEN "" ELSE Head(q) \o Text(Tail(q))

\* What the handler gives its caller: a string, or a thrown Error.
Returned(t) == [kind |-> "returned", value |-> t]
Thrown(t)   == [kind |-> "thrown", value |-> t]

\* What the human did with the prompt: "none" while no prompt was ever put
\* before the human, "pending" while it is open.
NoHuman      == [act |-> "none", text |-> << >>]
HumanPending == [act |-> "pending", text |-> << >>]
HumanAct(a)  == [act |-> a, text |-> << >>]
HumanSubmit(q) == [act |-> "submit", text |-> q]

\* A string argument of the call: absent, or a text.
NoTextArg  == [k |-> "undef", q |-> << >>]
TextArg(q) == [k |-> "str", q |-> q]

\* const title = ..., const fullRequest = ...
Title(expect_answer) == IF expect_answer THEN "Vopros ot AI" ELSE "Zapros dejstviya"
FullRequest(request, details) ==
  IF details # << >> THEN request \o <<"\n\nDetali: ">> \o details ELSE request

\* fullRequest.replace(/"/g, '\\"')
RECURSIVE EscapeQuotes(_)
EscapeQuotes(q) ==
  IF q = << >> THEN << >>
  ELSE (IF Head(q) = "\"" THEN <<"\\", "\"">> ELSE <<Head(q)>>)
       \o EscapeQuotes(Tail(q))

\* The AppleScript of the darwin branch and the command that runs it.
DialogScript(expect_answer, fullRequest, answer_placeholder) ==
  <<"display dialog ", "\"">> \o EscapeQuotes(fullRequest)
  \o <<"\"", " with title ", "\"", Title(expect_answer), "\"">>
  \o (IF expect_answer
      THEN <<" default answer ", "\"">> \o answer_placeholder
           \o <<"\"", " buttons {", "\"", "Otpravit", "\"", ", ", "\"", "Otmena",
                "\"", "} default button ", "\"", "Otpravit", "\"">>
      ELSE <<" buttons {", "\"", "Vypolneno", "\"", ", ", "\"", "Otmena",
             "\"", "} default button ", "\"", "Vypolneno", "\"">>)
OsascriptCommand(script) == <<"osascript -e ", "'">> \o script \o <<"'">>

\* The command of the win32 / linux branch.
TerminalCommand(os, expect_answer, fullRequest) ==
  IF os = "win32"
  THEN <<"start cmd /k ", "\"", "echo ", Title(expect_answer), " && echo. && echo ">>
       \o fullRequest
       \o <<" && echo. && echo ",
            IF expect_answer THEN "Please type your answer in Cursor chat"
            ELSE "Close this window when done",
            " && echo. && pause", "\"">>
  ELSE <<"x-terminal-emulator -e ", "\"", "bash -c ", "'", "echo ", "\\", "\"",
         Title(expect_answer), "\\", "\"", "; echo; echo ", "\\", "\"">>
       \o fullRequest
       \o <<"\\", "\"", "; echo; ">>
       \o (IF expect_answer
           THEN <<"echo ", "\\", "\"", "Please type your answer in Cursor chat",
                  "\\", "\"", "; read -p ", "\\", "\"", "Press Enter...">>
           ELSE <<"read -p ", "\\", "\"", "Press Enter when done...">>)
       \o <<"\\", "\"", "'", "\"">>

\* How /bin/sh reads the quoting of a command line: the quoting state it is
\* in after the last piece.  Inside '...' every character is literal; a
\* backslash outside '...' takes the next character literally.
RECURSIVE ShellQuoting(_, _)
ShellQuoting(cmd, st) ==
  IF cmd = << >> THEN st
  ELSE LET c == Head(cmd)
           rest == Tail(cmd) IN
       IF st = "single"
       THEN ShellQuoting(rest, IF c = "'" THEN "plain" ELSE "single")
       ELSE IF c = "\\"
       THEN IF rest = << >> THEN st ELSE ShellQuoting(Tail(rest), st)
       ELSE IF st = "double"
       THEN ShellQuoting(rest, IF c = "\"" THEN "plain" ELSE "double")
       ELSE ShellQuoting(rest, IF c = "'" THEN "single"
                               ELSE IF c = "\"" THEN "double" ELSE "plain")

\* The number of apostrophes of a command line.
Apostrophes(cmd) == Cardinality({i \in 1..Len(cmd) : cmd[i] = "'"})

\* The shell hands osascript the script as written: every quote of the
\* command line is closed and the two apostrophes around the script are
\* its only ones.
RunsDialog(command) ==
  ShellQuoting(command, "plain") = "plain" /\ Apostrophes(command) = 2

\* The ways execAsync(`osascript -e '...'`) can settle while the human is
\* in state h.  A command line the shell cannot read is rejected without
\* any dialog.  Otherwise it settles once the dialog is up: when the human
\* has left the dialog, it resolves with the stdout of osascript if a
\* button other than cancel was pressed and is rejected if the dialog was
\* cancelled or dismissed; while the human has not, the command can only
\* fail by itself.
execAsync(command, h) ==
  IF ~RunsDialog(command)
  THEN { [ok |-> FALSE, button |-> "", text |-> << >>,
          message |-> "Command failed: /bin/sh: unexpected EOF while looking for matching quote"] }
  ELSE IF h.act = "submit"
  THEN { [ok |-> TRUE, button |-> "Otpravit", text |-> h.text, message |-> ""] }
  ELSE IF h.act = "done"
  THEN { [ok |-> TRUE, button |-> "Vypolneno", text |-> << >>, message |-> ""] }
  ELSE IF h.act \in {"cancel", "dismiss"}
  THEN { [ok |-> FALSE, button |-> "", text |-> << >>,
          message |-> "Command failed: osascript: User canceled. (-128)"] }
  ELSE IF h = HumanPending
  THEN { [ok |-> FALSE, button |-> "", text |-> << >>,
          message |-> "Command failed: osascript: execution error"] }
  ELSE {}

\* The ways spawnBackground(command) can settle while the human is in
\* state h.  While no terminal window is up it can only be rejected: the
\* emulator could not be started.  With the window up, whether the promise
\* waits for the window to close is not fixed: it can resolve while the
\* human has not touched the window as well as after, and a window that
\* was closed can also make it reject.
SpawnOutcomes(h) ==
  IF h = NoHuman
  THEN { [ok |-> FALSE, message |-> "spawn ENOENT"] }
  ELSE { [ok |-> TRUE, message |-> ""] }
       \cup (IF h.act = "dismiss"
             THEN { [ok |-> FALSE, message |-> "Command failed with exit code 1"] }
             ELSE {})

\* The darwin branch after execAsync has settled.  /text returned:(.+)/
\* matches when at least one character follows; every throw of the inner
\* try, "Failed to retrieve user input." included, is replaced by the inner
\* catch and then prefixed by the outer one.
dialogResult(expect_answer, settled) ==
  IF expect_answer
  THEN IF settled.ok /\ Len(settled.text) >= 1
       THEN Returned("User Answer: \"" \o Text(Trim(settled.text)) \o "\"")
       ELSE Thrown("Interaction Error: User cancelled input.")
  ELSE IF settled.ok /\ settled.button = "Vypolneno"
       THEN Returned("User confirmed execution.")
       ELSE Thrown("Interaction Error: User cancelled operation.")

\* The win32 / linux branch after spawnBackground has settled.
terminalResult(expect_answer, spawn) ==
  IF ~spawn.ok THEN Thrown("Interaction Error: " \o spawn.message)
  ELSE IF expect_answer THEN Returned("Waiting for user input in chat...")
  ELSE Returned("Waiting for user confirmation...")

\* The arguments wait_for_user is invoked with and the platforms it runs on.
Platforms == {"darwin", "win32", "linux"}
Requests ==
  { <<"Deploy?">>, <<"It", "'", "s done?">>, <<"Say ", "\"", "ok", "\"">> }
WaitArgs ==
  [ request : Requests,
    details : {NoTextArg, TextArg(<< >>), TextArg(<<"to prod">>)},
    expect_answer : {NoArg, Bool(FALSE), Bool(TRUE)},
    answer_placeholder : {NoTextArg, TextArg(<<"yes or no">>)} ]

\* The texts the human may submit in the dialog.
Answers == { << >>, <<" ">>, <<"o", "k">>, <<" ", "o", "k", " ">> }

\* --------------------------------------------------------------- state ----
VARIABLES
  pc,        \* "idle", "awaiting" (suspended at await axios.post), "returned"
  call,      \* the name of the tool whose handler is running
  posts,     \* the axios.post calls issued by the running invocation
  upstream,  \* how axios.post settled: kind, data, message
  norm,      \* the convertToMCPResponse call made by the invocation, if any
  result,    \* what the handler gave its caller: a Return or a Raise
  waitPc,    \* wait_for_user: "idle", "dialog" (at await execAsync),
             \* "spawning" (at await spawnBackground), "done"
  waitCall,  \* wait_for_user: platform, mode and the command it issued
  prompt,    \* "none", or the "dialog" / "terminal" the human sees
  human,     \* what the human has done with the prompt
  waitResult \* the results wait_for_user gave its caller, in order

waitVars == <<waitPc, waitCall, prompt, human, waitResult>>
unityVars == <<pc, call, posts, upstream, norm, result>>
vars == <<pc, call, posts, upstream, norm, result,
          waitPc, waitCall, prompt, human, waitResult>>

NoCall     == ""
NoUpstream == [kind |-> "none", data |-> NoBody, message |-> ""]
NoNorm     == [called |-> FALSE, r |-> Return(<< >>)]
NoResult   == [raised |-> FALSE, content |-> << >>, message |-> "pending"]
NoWaitCall == [os |-> "", expect_answer |-> FALSE, fullRequest |-> << >>,
               command |-> << >>]

Init ==
  /\ pc = "idle"
  /\ call = NoCall
  /\ posts = << >>
  /\ upstream = NoUpstream
  /\ norm = NoNorm
  /\ result = NoResult
  /\ waitPc = "idle"
  /\ waitCall = NoWaitCall
  /\ prompt = "none"
  /\ human = NoHuman
  /\ waitResult = << >>

\* The arguments the handlers are invoked with, valid for their inputSchema.
CameraParams ==
  [ position : {<<0, 1, 2>>}, target : {<<0, 0, 0>>},
    fov : {NoArg, Num(90)}, width : {NoArg}, height : {NoArg, Num(720)} ]
SceneParams   == [ detailed : {NoArg, Bool(FALSE), Bool(TRUE)} ]
ExecuteParams == [ code : {"return 1;"} ]

\* handleUnityRequest up to its await: one axios.post of the data to the
\* endpoint, with the timeout.
handleUnityRequest(tool, endpoint, data, timeout) ==
  /\ pc \in {"idle", "returned"}
  /\ pc' = "awaiting"
  /\ call' = tool
  /\ posts' = <<[url |-> UNITY_BASE_URL \o endpoint, data |-> data,
                 timeout |-> timeout]>>
  /\ upstream' = NoUpstream
  /\ norm' = NoNorm
  /\ result' = NoResult
  /\ UNCHANGED waitVars

\* The handlers of unityTools; data = {} and timeout = 10000 are the
\* defaults of handleUnityRequest.
screenshot ==
  handleUnityRequest("screenshot", "/api/screenshot", [x \in {} |-> 0], 10000)

camera_screenshot ==
  \E params \in CameraParams :
    LET requestBody == [ position |-> params.position,
                         target   |-> params.target,
                         fov      |-> NumOr(params.fov, 60),
                         width    |-> NumOr(params.width, 1920),
                         height   |-> NumOr(params.height, 1080) ]
    IN handleUnityRequest("camera_screenshot", "/api/camera_screenshot",
                          requestBody, 20000)

scene_hierarchy ==
  \E params \in SceneParams :
    LET requestBody == [ detailed |-> BoolOr(params.detailed, FALSE) ]
    IN handleUnityRequest("scene_hierarchy", "/api/scene_hierarchy",
                          requestBody, 15000)

execute ==
  \E params \in ExecuteParams :
    LET requestBody == [ code |-> params.code ]
    IN handleUnityRequest("execute", "/api/execute", requestBody, 30000)

\* axios.post resolves: return convertToMCPResponse(response.data), inside
\* the try block.
Resolved ==
  /\ pc = "awaiting"
  /\ \E d \in Bodies :
       /\ upstream' = [kind |-> "resolved", data |-> d, message |-> ""]
       /\ norm' = [called |-> TRUE, r |-> convertToMCPResponse(d)]
       /\ result' = handleUnityRequestResolved(d)
  /\ pc' = "returned"
  /\ UNCHANGED <<call, posts>>
  /\ UNCHANGED waitVars

\* axios.post rejects: the catch block.
Rejected ==
  /\ pc = "awaiting"
  /\ \E e \in Failures(posts[1].timeout) :
       /\ upstream' = [kind |-> "rejected", data |-> e.data, message |-> e.message]
       /\ norm' = IF TruthyBody(e.data)
                  THEN [called |-> TRUE, r |-> convertToMCPResponse(e.data)]
                  ELSE NoNorm
       /\ result' = handleUnityRequestCatch(e.message, e.data)
  /\ pc' = "returned"
  /\ UNCHANGED <<call, posts>>
  /\ UNCHANGED waitVars

Next ==
  \/ screenshot
  \/ camera_screenshot
  \/ scene_hierarchy
  \/ execute
  \/ Resolved
  \/ Rejected

Spec == Init /\ [][Next]_vars

TypeOK ==
  /\ pc \in {"idle", "awaiting", "returned"}
  /\ Len(posts) <= 1

\* wait_for_user up to its await: on darwin it runs osascript through
\* execAsync, elsewhere it hands the terminal command to spawnBackground.
wait_for_user ==
  /\ waitPc \in {"idle", "done"}
  /\ \E os \in Platforms, args \in WaitArgs :
       LET expect_answer == IF args.expect_answer.k = "undef" THEN FALSE
                            ELSE args.expect_answer.b
           details == IF args.details.k = "undef" THEN << >> ELSE args.details.q
           answer_placeholder ==
             IF args.answer_placeholder.k = "undef"
             THEN <<"Vvedite vash otvet...">> ELSE args.answer_placeholder.q
           fullRequest == FullRequest(args.request, details)
       IN /\ waitCall' =
               [ os |-> os, expect_answer |-> expect_answer,
                 fullRequest |-> fullRequest,
                 command |->
                   IF os = "darwin"
                   THEN OsascriptCommand(
                          DialogScript(expect_answer, fullRequest, answer_placeholder))
                   ELSE TerminalCommand(os, expect_answer, fullRequest) ]
          /\ waitPc' = IF os = "darwin" THEN "dialog" ELSE "spawning"
  /\ prompt' = "none"
  /\ human' = NoHuman
  /\ waitResult' = << >>
  /\ UNCHANGED unityVars

\* osascript puts the dialog before the human, when the shell could hand
\* it the script.
DialogOpens ==
  /\ waitPc = "dialog"
  /\ prompt = "none"
  /\ RunsDialog(waitCall.command)
  /\ prompt' = "dialog"
  /\ human' = HumanPending
  /\ UNCHANGED <<waitPc, waitCall, waitResult>>
  /\ UNCHANGED unityVars

\* The terminal emulator puts its window before the human.
TerminalOpens ==
  /\ waitPc = "spawning"
  /\ prompt = "none"
  /\ prompt' = "terminal"
  /\ human' = HumanPending
  /\ UNCHANGED <<waitPc, waitCall, waitResult>>
  /\ UNCHANGED unityVars

\* The human leaves the dialog: submits a text or presses the done button
\* (whichever the dialog has), cancels, or dismisses it.
HumanAnswersDialog ==
  /\ prompt = "dialog"
  /\ human = HumanPending
  /\ \E h \in (IF waitCall.expect_answer
               THEN { HumanSubmit(q) : q \in Answers }
               ELSE { HumanAct("done") })
              \cup { HumanAct("cancel"), HumanAct("dismiss") } :
       human' = h
  /\ UNCHANGED <<waitPc, waitCall, prompt, waitResult>>
  /\ UNCHANGED unityVars

\* execAsync settles, and the darwin branch runs to its return or throw.
DialogSettled ==
  /\ waitPc = "dialog"
  /\ \E settled \in execAsync(waitCall.command, human) :
       waitResult' = Append(waitResult,
                            dialogResult(waitCall.expect_answer, settled))
  /\ waitPc' = "done"
  /\ prompt' = "none"
  /\ UNCHANGED <<waitCall, human>>
  /\ UNCHANGED unityVars

\* spawnBackground settles, and the fallback branch runs to its return or
\* throw.  The terminal window, when there is one, stays as it is.
SpawnSettled ==
  /\ waitPc = "spawning"
  /\ \E spawn \in SpawnOutcomes(human) :
       waitResult' = Append(waitResult,
                            terminalResult(waitCall.expect_answer, spawn))
  /\ waitPc' = "done"
  /\ UNCHANGED <<waitCall, prompt, human>>
  /\ UNCHANGED unityVars

\* The human presses Enter in the terminal window or closes it.
HumanLeavesTerminal ==
  /\ prompt = "terminal"
  /\ human = HumanPending
  /\ \E a \in {"enter", "dismiss"} : human' = HumanAct(a)
  /\ UNCHANGED <<waitPc, waitCall, prompt, waitResult>>
  /\ UNCHANGED unityVars

NextWait ==
  \/ wait_for_user
  \/ DialogOpens
  \/ TerminalOpens
  \/ HumanAnswersDialog
  \/ DialogSettled
  \/ SpawnSettled
  \/ HumanLeavesTerminal

SpecWait == Init /\ [][NextWait]_vars

\* ---------------------------------------------------------- properties ----
\* The payload handed to the normalizer by the running invocation, and the
\* route the normalizer takes for it.
Payload  == upstream.data
Messages == Get(upstream.data, "messages")
CurrentShape == norm.called /\ Payload.k # "null" /\ Messages.k = "arr"
LegacyShape  == norm.called /\ Payload.k # "null" /\ Messages.k # "arr"

\* A field that is there (not missing, not null), and one that also holds
\* a non-empty text.
Present(v)  == v.k \notin {"undef", "null"}
NonEmpty(v) == Present(v) /\ v # Str("")

\* The payload with every key but `messages` removed.
OnlyMessages(p) ==
  [k |-> "obj", s |-> "", keys |-> <<"messages">>,
   f |-> [key \in DOMAIN p.f |-> IF key = "messages" THEN p.f[key] ELSE Undef]]

\* The blocks the current-shape rules give one entry, and a whole sequence.
EntryBlocks(e) ==
  IF e.type = Str("text") THEN <<TextBlock(e.content)>>
  ELSE IF e.type = Str("image")
  THEN (IF NonEmpty(e.text) THEN <<TextBlock(e.text)>> ELSE << >>)
       \o <<ImageBlock(e.content)>>
  ELSE << >>

RECURSIVE CurrentBlocks(_)
CurrentBlocks(q) ==
  IF q = << >> THEN << >> ELSE EntryBlocks(Head(q)) \o CurrentBlocks(Tail(q))

\* C1: every payload the normalizer converts, current-shape or legacy-shape,
\* comes back with a content sequence of at least one block.
C1_NonEmpty ==
  norm.called /\ ~norm.r.raised => Len(norm.r.content) >= 1

\* C2 as stated: whenever the payload has a `messages` field, the outcome is
\* that of the payload reduced to `messages`: legacy fields change nothing.
C2_AnyMessagesField ==
  norm.called /\ Payload.k = "obj" /\ Messages.k # "undef"
    => norm.r = convertToMCPResponse(OnlyMessages(Payload))

\* C2 amended: whenever `messages` is a sequence, the outcome is that of the
\* payload reduced to `messages`: the legacy fields next to it add no block
\* and changing them changes nothing.
C2_ShapePriority ==
  CurrentShape => norm.r = convertToMCPResponse(OnlyMessages(Payload))

C2_Witness ==
  /\ CurrentShape
  /\ NonEmpty(Get(Payload, "message"))
  /\ NonEmpty(Get(Payload, "image"))
  /\ ~norm.r.raised
  /\ Len(norm.r.content) >= 2

\* C3: for a current-shape payload the normalizer returns, without raising,
\* the in-order concatenation of the blocks of each entry: a text block for
\* a text entry, an optional text block then an image block for an image
\* entry, nothing for any other entry.
C3_CurrentShapeBlocks ==
  CurrentShape => /\ ~norm.r.raised
                  /\ norm.r.content = CurrentBlocks(Messages.a)

\* The legacy fields of the payload under conversion.
PMessage == Get(upstream.data, "message")
PData    == Get(upstream.data, "data")
PImage   == Get(upstream.data, "image")
PErrors  == Get(upstream.data, "errors")
PStatus  == Get(upstream.data, "status")

\* `errors` is a non-empty sequence.
HasErrors == PErrors.k = "arr" /\ Len(PErrors.a) > 0

\* C4, with "present" read as present and non-empty (the reading that asks
\* least of the code): for a legacy payload with message and data both
\* present the normalizer gives an output; identical texts give exactly one
\* text block with that text, different texts give two text blocks, the
\* message block first and the data block second.
C4_PresentPair ==
  LegacyShape /\ NonEmpty(PMessage) /\ NonEmpty(PData)
    => LET c == norm.r.content IN
       /\ ~norm.r.raised
       /\ IF PData = PMessage
          THEN Cardinality({i \in 1..Len(c) : c[i] = TextBlock(PMessage)}) = 1
          ELSE /\ Len(c) >= 2
               /\ c[1] = TextBlock(PMessage)
               /\ c[2] = TextBlock(PData)

\* The payload {message: "X", data: "Y", errors: [null]} has been
\* converted: the normalizer raised instead of giving the two text blocks.
C4_RaisingPayload ==
  /\ LegacyShape
  /\ PMessage = Str("X")
  /\ PData = Str("Y")
  /\ PErrors = Arr(<<ErrNull>>)
  /\ norm.r.raised

\* The blocks of message, data and image in the fixed order, a field
\* contributing when `has` holds of it.
Leading(has(_)) ==
  (IF has(PMessage) THEN <<TextBlock(PMessage)>> ELSE << >>)
  \o (IF has(PData) /\ PData # PMessage THEN <<TextBlock(PData)>> ELSE << >>)
  \o (IF has(PImage)
      THEN <<TextBlock(Str("Unity Screenshot")), ImageBlock(PImage)>>
      ELSE << >>)

\* When some field is due a block, the normalizer gives an output and it is
\* the leading blocks, then one text block when errors is a non-empty
\* sequence.
FixedOrder(has(_)) ==
  LET c == norm.r.content
      lead == Leading(has) IN
  Len(lead) + (IF HasErrors THEN 1 ELSE 0) > 0
    => /\ ~norm.r.raised
       /\ IF HasErrors
          THEN /\ Len(c) = Len(lead) + 1
               /\ SubSeq(c, 1, Len(lead)) = lead
               /\ c[Len(c)].type = "text"
          ELSE c = lead

\* C5, with "present" read as present and non-empty (the reading that asks
\* least of the code): every present field of a legacy payload among
\* message, data (when distinct from message), image and errors (when a
\* non-empty sequence) contributes its blocks to the output, in the order
\* message, data, caption and image, diagnostic log, whatever the order or
\* combination of the fields in the payload.
C5_PresentFields ==
  LegacyShape => FixedOrder(NonEmpty)

\* The payload {message: "X", errors: [null]} has been converted: the
\* normalizer raised and neither field contributed a block.
C5_RaisingPayload ==
  /\ LegacyShape
  /\ Payload.keys = <<"message", "errors">>
  /\ PMessage = Str("X")
  /\ PErrors = Arr(<<ErrNull>>)
  /\ norm.r.raised
  /\ norm.r.content = << >>

\* An errors entry as the diagnostic log shows it: a string as itself, an
\* object as "<Level>: <Message>" from its capitalized or lowercase fields
\* ("Info" and "Unknown error" standing in for a missing one).
Field(upper, lower, missing) ==
  IF NonEmpty(upper) THEN upper.s ELSE IF NonEmpty(lower) THEN lower.s ELSE missing
Rendered(e) ==
  IF e.k = "str" THEN e.s
  ELSE Field(e.Level, e.level, "Info") \o ": "
       \o Field(e.Message, e.message, "Unknown error")

RECURSIVE LogBody(_)
LogBody(q) ==
  IF Len(q) = 1 THEN Rendered(q[1])
  ELSE Rendered(Head(q)) \o "\n" \o LogBody(Tail(q))

\* C6: for a legacy payload whose errors is a non-empty sequence the
\* normalizer does not raise, whatever the entries, and its content ends
\* with the one diagnostic block: the heading, then every entry rendered in
\* order and joined by newlines.
C6_ErrorRendering ==
  LegacyShape /\ HasErrors
    => LET c == norm.r.content
           log == TextBlock(Str("Unity Logs:\n" \o LogBody(PErrors.a))) IN
       /\ ~norm.r.raised
       /\ Len(c) >= 1
       /\ c[Len(c)] = log
       /\ Cardinality({i \in 1..Len(c) : c[i] = log}) = 1

\* The payload {errors: [null]} has been converted: the normalizer raised
\* on the null entry and gave no diagnostic block.
C6_NullEntry ==
  /\ LegacyShape
  /\ Payload.keys = <<"errors">>
  /\ PErrors = Arr(<<ErrNull>>)
  /\ norm.r = Raise("Cannot read properties of null (reading 'Level')")

\* No legacy field produces a block.
NothingToShow ==
  /\ ~NonEmpty(PMessage)
  /\ ~NonEmpty(PData)
  /\ ~NonEmpty(PImage)
  /\ ~HasErrors

\* C7: for a legacy payload in which no field produces a block the output
\* is exactly one text block, stating the value of `status` when there is
\* one and "Unknown" when status is absent; when some field produces a
\* block, no fallback block is added to the output.
C7_PresentStatus ==
  LegacyShape
    => LET c == norm.r.content IN
       IF NothingToShow
       THEN /\ ~norm.r.raised
            /\ Len(c) = 1
            /\ NonEmpty(PStatus)
                 => c[1] = TextBlock(Str("Unity Status: " \o PStatus.s))
            /\ PStatus = Undef
                 => c[1] = TextBlock(Str("Unity Status: Unknown"))
       ELSE ~norm.r.raised
              => Len(c) = Len(Leading(NonEmpty)) + (IF HasErrors THEN 1 ELSE 0)

\* The payload {errors: "boom", status: "idle"} has been converted: no
\* field produces a block, and the normalizer raised instead of stating
\* the status.
C7_RaisingPayload ==
  /\ LegacyShape
  /\ Payload.keys = <<"errors", "status">>
  /\ NothingToShow
  /\ PErrors = Str("boom")
  /\ PStatus = Str("idle")
  /\ norm.r.raised

\* The failure carried a body: something other than nothing, null or "".
HasBody == upstream.data.k = "obj" \/ (upstream.data.k = "str" /\ upstream.data.s # "")

\* The first block of a failure: the message and the remediation hint.
FailureBlock(message) ==
  [type |-> "text",
   text |-> Str("Unity Connection Error: " \o message
              \o "\nCheck: Unity running, Bridge Window open, Port 7777 active.")]

\* C8: when the upstream call fails, the handler's content is the failure
\* block, followed by nothing when the failure carried no body, by exactly
\* the normalized blocks of the body when the normalizer accepts it, and by
\* the one block holding the raw body as text when the normalizer raises.
C8_FailureOutput ==
  pc = "returned" /\ upstream.kind = "rejected"
    => /\ ~result.raised
       /\ result.content =
            <<FailureBlock(upstream.message)>>
            \o (IF ~HasBody THEN << >>
                ELSE IF ~norm.r.raised THEN norm.r.content
                ELSE <<TextBlock(Str("Unity Error Details: "
                                     \o JSONstringify(upstream.data)))>>)

C8_Witness ==
  /\ pc = "returned"
  /\ upstream.kind = "rejected"
  /\ HasBody
  /\ Get(upstream.data, "message") = Str("X")
  /\ norm.called
  /\ norm.r.raised
  /\ Len(result.content) = 2

\* C9: an invocation of a bridge-backed handler has issued exactly one
\* request, to its endpoint, from the moment it waits for the upstream on,
\* and once the upstream has settled - success, failure with or without a
\* body - it has returned a content sequence and has not thrown.
C9_OneRequestThenContent ==
  /\ pc \in {"awaiting", "returned"}
       => /\ Len(posts) = 1
          /\ posts[1].url = "http://localhost:7777/api/" \o call
  /\ pc = "returned"
       => /\ upstream.kind \in {"resolved", "rejected"}
          /\ ~result.raised
          /\ result.message # "pending"

C9_Witness ==
  /\ pc = "returned"
  /\ call = "execute"
  /\ upstream.kind = "rejected"
  /\ upstream.message = "timeout of 30000ms exceeded"
  /\ Len(posts) = 1
  /\ Len(result.content) = 1

\* C10: when the upstream responds successfully the handler returns exactly
\* what the normalizer makes of the response payload, and the failure block
\* is in the content only when the upstream call failed.
C10_SuccessOutput ==
  pc = "returned" /\ upstream.kind = "resolved"
    => /\ ~norm.r.raised
       /\ result = norm.r
       /\ \A i \in 1..Len(result.content) :
            \A m \in { "Cannot read properties of null (reading 'messages')",
                       "Cannot read properties of null (reading 'type')",
                       "Cannot read properties of null (reading 'Level')",
                       "unityData.errors.map is not a function" } :
              result.content[i] # FailureBlock(m)

\* The human has responded to the prompt or dismissed it, and has declined.
HumanDone     == human.act \in {"submit", "done", "enter", "cancel", "dismiss"}
HumanDeclined == human.act \in {"cancel", "dismiss"}

\* The user-cancelled errors of the two modes.
UserCancelled ==
  { Thrown("Interaction Error: User cancelled input."),
    Thrown("Interaction Error: User cancelled operation.") }

\* C11, read so that a call failing with an error other than the
\* user-cancelled one (the prompt could not be put before the human) is
\* outside it: on every platform and in both modes a completed wait_for_user
\* has one result; when that is a string or the user-cancelled error, the
\* human has responded to or dismissed the prompt before it, and it is the
\* user-cancelled error when the human declined or dismissed and a string
\* otherwise.
C11_EveryPlatformWaits ==
  waitPc = "done"
    => /\ Len(waitResult) = 1
       /\ waitResult[1].kind = "returned" \/ waitResult[1] \in UserCancelled
            => /\ HumanDone
               /\ IF HumanDeclined
                  THEN waitResult[1] \in UserCancelled
                  ELSE waitResult[1].kind = "returned"

\* The call on darwin whose request holds an apostrophe: it has completed
\* with the user-cancelled error, and no dialog was ever before the human.
C11_ApostropheRequest ==
  /\ waitPc = "done"
  /\ waitCall.os = "darwin"
  /\ waitCall.expect_answer
  /\ waitCall.fullRequest = <<"It", "'", "s done?">>
  /\ human = NoHuman
  /\ waitResult = <<Thrown("Interaction Error: User cancelled input.")>>

====
